---------------------------- MODULE Spec2Model ----------------------------
(***************************************************************************)
(* SyncDoc: the document access-control, share-link and version-history    *)
(* engine of the backend (models/Document.js, models/Version.js and        *)
(* routes/documents.js).                                                   *)
(*                                                                         *)
(* The persistent store is modelled as the route handlers use it: a        *)
(* document is an object whose shareSettings may be absent (the handlers   *)
(* test `!document.shareSettings` and assign `undefined` to it), and       *)
(* whose shareSettings.permissionLinks holds what the handlers assign.     *)
(* An optional value is a sequence of length 0 or 1.                       *)
(*                                                                         *)
(* A request is a process in a slot.  Its steps are the awaited store      *)
(* operations of its handler; the synchronous code that follows an await   *)
(* touches only the request's own locals and belongs to the same step.     *)
(***************************************************************************)
EXTENDS Integers, Sequences, FiniteSets, TLC

(***************************************************************************)
(* Bounds of the model.                                                    *)
(***************************************************************************)
NumSlots == 2
MaxVersions == 4
MaxTime == 2

Slots == 1..NumSlots

Users == {"u1", "u2", "u3"}
DocIds == {"d1", "d2"}
Tokens == {"t1", "t2"}

None == <<>>
Some(x) == <<x>>
IsSome(o) == o /= <<>>
Get(o) == o[1]

(***************************************************************************)
(* Values of the schema enums and of the route validators.                 *)
(***************************************************************************)
CollabPermissions == {"read", "write", "admin"}
LinkPermissions == {"read", "comment", "write"}
RequiredPermissions == {"read", "comment", "write", "admin"}

(* Content is a string of characters; markup is kept as written. *)
EmptyContent == <<>>
ContentA == <<"<", "p", ">", "H", "i", " ", "y", "o", "u", "<", "/", "p", ">">>
ContentB == <<"o", "k">>
Contents == {EmptyContent, ContentA, ContentB}

DefaultTitle == "Untitled Document"
Titles == {DefaultTitle, "Notes"}

OwnerOf(d) == IF d = "d1" THEN "u1" ELSE "u2"

(***************************************************************************)
(* The store, the requests in flight and the clock.                        *)
(***************************************************************************)
VARIABLES documents, versions, reqs, now, probe

vars == <<documents, versions, reqs, now, probe>>

(***************************************************************************)
(* models/Document.js                                                      *)
(***************************************************************************)

(* The table with write given the level of read. *)
permissionsWriteAsRead(p) ==
  CASE p = "read" -> 1
    [] p = "write" -> 1
    [] p = "admin" -> 3
    [] OTHER -> 0

(* The permissions table of hasAccess; `permissions[x] || 0`. *)
permissions(p) ==
  CASE p = "read" -> 1
    [] p = "write" -> 2
    [] p = "admin" -> 3
    [] OTHER -> 0

(* collaborators.find(collab => collab.user === userId): the first match. *)
FindCollaborator(doc, userId) ==
  LET idx == {i \in 1..Len(doc.collaborators) : doc.collaborators[i].user = userId}
  IN IF idx = {} THEN None
     ELSE Some(doc.collaborators[CHOOSE i \in idx : \A j \in idx : i <= j])

(* hasAccess without its owner branch. *)
hasAccessNoOwnerBranch(doc, userId, requiredPermission) ==
  LET collaborator == FindCollaborator(doc, userId) IN
    IF ~IsSome(collaborator)
    THEN IF ~IsSome(doc.shareSettings) THEN "throws"
         ELSE IF Get(doc.shareSettings).isPublic /\ requiredPermission = "read"
              THEN "granted" ELSE "denied"
    ELSE IF permissions(Get(collaborator).permission) >= permissions(requiredPermission)
         THEN "granted" ELSE "denied"

(* hasAccess comparing the levels with > instead of >=. *)
hasAccessStrict(doc, userId, requiredPermission) ==
  IF doc.ownerId = userId THEN "granted"
  ELSE LET collaborator == FindCollaborator(doc, userId) IN
    IF ~IsSome(collaborator)
    THEN IF ~IsSome(doc.shareSettings) THEN "throws"
         ELSE IF Get(doc.shareSettings).isPublic /\ requiredPermission = "read"
              THEN "granted" ELSE "denied"
    ELSE IF permissions(Get(collaborator).permission) > permissions(requiredPermission)
         THEN "granted" ELSE "denied"

(* documentSchema.methods.hasAccess: "granted", "denied", or "throws" when  *)
(* this.shareSettings is undefined and .isPublic is read from it.           *)
hasAccess(doc, userId, requiredPermission) ==
  IF doc.ownerId = userId THEN "granted"
  ELSE LET collaborator == FindCollaborator(doc, userId) IN
    IF ~IsSome(collaborator)
    THEN IF ~IsSome(doc.shareSettings) THEN "throws"
         ELSE IF Get(doc.shareSettings).isPublic /\ requiredPermission = "read"
              THEN "granted" ELSE "denied"
    ELSE IF permissions(Get(collaborator).permission) >= permissions(requiredPermission)
         THEN "granted" ELSE "denied"

(* content.replace(/<[^>]*>/g, ''): a "<" up to the next ">" is removed;   *)
(* a "<" with no ">" after it stays.                                        *)
FirstGt(s, i) == CHOOSE j \in (i + 1)..Len(s) :
                   s[j] = ">" /\ \A k \in (i + 1)..(j - 1) : s[k] /= ">"

RECURSIVE StripTagsFrom(_, _)
StripTagsFrom(s, i) ==
  IF i > Len(s) THEN <<>>
  ELSE IF s[i] = "<" /\ \E j \in (i + 1)..Len(s) : s[j] = ">"
       THEN StripTagsFrom(s, FirstGt(s, i) + 1)
       ELSE <<s[i]>> \o StripTagsFrom(s, i + 1)

StripTags(s) == StripTagsFrom(s, 1)

Whitespace == {" ", "\n", "\t"}

(* String.prototype.trim *)
RECURSIVE Trim(_)
Trim(s) ==
  IF s = <<>> THEN s
  ELSE IF s[1] \in Whitespace THEN Trim(Tail(s))
  ELSE IF s[Len(s)] \in Whitespace THEN Trim(SubSeq(s, 1, Len(s) - 1))
  ELSE s

(* textContent ? textContent.split(/\s+/).length : 0 *)
CountWords(text) ==
  IF text = <<>> THEN 0
  ELSE 1 + Cardinality({i \in 2..Len(text) :
                          text[i] \in Whitespace /\ text[i - 1] \notin Whitespace})

(* The hook that counts on the content with its markup left in. *)
PreSaveWithMarkup(doc, contentModified) ==
  IF contentModified
  THEN LET textContent == Trim(doc.content) IN
       [doc EXCEPT !.wordCount = CountWords(textContent),
                   !.characterCount = Len(textContent)]
  ELSE doc

(* documentSchema.pre('save'): the counts follow the content only when the  *)
(* content path is modified.                                                *)
PreSave(doc, contentModified) ==
  IF contentModified
  THEN LET textContent == Trim(StripTags(doc.content)) IN
       [doc EXCEPT !.wordCount = CountWords(textContent),
                   !.characterCount = Len(textContent)]
  ELSE doc

(* new Document({title, content, ownerId, lastEditedBy, folder}) of POST / *)
NewDocument(owner, title, content) ==
  [ title |-> title, content |-> content, ownerId |-> owner,
    collaborators |-> <<>>, isShared |-> FALSE, shareSettings |-> None,
    shareLink |-> None, status |-> "draft", lastEditedBy |-> owner,
    wordCount |-> 0, characterCount |-> 0 ]

(* this.collaborators.findIndex(...) of addCollaborator: 0 for -1. *)
FindCollaboratorIndex(doc, userId) ==
  LET idx == {i \in 1..Len(doc.collaborators) : doc.collaborators[i].user = userId}
  IN IF idx = {} THEN 0 ELSE CHOOSE i \in idx : \A j \in idx : i <= j

(* documentSchema.methods.addCollaborator, up to its this.save(). *)
addCollaborator(doc, userId, permission) ==
  LET existingIndex == FindCollaboratorIndex(doc, userId) IN
  [doc EXCEPT
     !.collaborators =
        IF existingIndex /= 0
        THEN [doc.collaborators EXCEPT ![existingIndex].permission = permission]
        ELSE Append(doc.collaborators, [user |-> userId, permission |-> permission]),
     !.isShared = TRUE]

(* this.collaborators.filter(collab => collab.user !== userId) *)
RECURSIVE FilterOut(_, _)
FilterOut(cs, userId) ==
  IF cs = <<>> THEN <<>>
  ELSE IF Head(cs).user = userId THEN FilterOut(Tail(cs), userId)
  ELSE <<Head(cs)>> \o FilterOut(Tail(cs), userId)

(* documentSchema.methods.removeCollaborator, up to its this.save(). *)
removeCollaborator(doc, userId) ==
  LET left == FilterOut(doc.collaborators, userId) IN
  [doc EXCEPT !.collaborators = left,
              !.isShared = IF Len(left) = 0 THEN FALSE ELSE doc.isShared]

(* document.save(): the pre-save hook runs on the loaded document, then    *)
(* the paths the handler modified are written to the stored document.      *)
SavedDocument(stored, local, dirty) ==
  LET hooked == PreSave(local, "content" \in dirty)
      paths == IF "content" \in dirty
               THEN dirty \cup {"wordCount", "characterCount"} ELSE dirty
  IN [f \in DOMAIN stored |-> IF f \in paths THEN hooked[f] ELSE stored[f]]

(* document.save() after this.collaborators.push(entry): the push is sent  *)
(* to the store as an append to the stored array, not as the array the     *)
(* handler holds.                                                          *)
SavedWithPush(stored, local, dirty, pushed) ==
  LET saved == SavedDocument(stored, local, dirty) IN
  IF pushed = <<>> THEN saved
  ELSE [saved EXCEPT !.collaborators = stored.collaborators \o pushed]

(* The paths of `after` whose value differs from `before`. *)
ModifiedPaths(before, after) == {f \in DOMAIN before : before[f] /= after[f]}

(***************************************************************************)
(* Share links (routes/documents.js).                                      *)
(***************************************************************************)
FrontendUrl == "http://localhost:5173"

(* `${FRONTEND_URL}/shared/${shareToken}` *)
ShareUrl(token) == <<FrontendUrl, "/shared/", token>>

NoLinks == [p \in LinkPermissions |-> None]

(* owner, or a collaborator whose permission === "write" *)
MayShare(doc, userId) ==
  \/ doc.ownerId = userId
  \/ \E i \in 1..Len(doc.collaborators) :
        doc.collaborators[i].user = userId /\ doc.collaborators[i].permission = "write"

(* shareSettings?.permissionLinks?.[p]?.url && ...?.token *)
ExistingLink(doc, p) ==
  IF IsSome(doc.shareSettings) THEN Get(doc.shareSettings).permissionLinks[p] ELSE None

(* The minting with the link table initialised anew on every issuance. *)
WithNewLinkOnly(doc, userId, body, shareToken) ==
  LET settings ==
        IF ~IsSome(doc.shareSettings)
        THEN [ isPublic |-> TRUE, permissionLinks |-> NoLinks,
               defaultPermission |-> body.defaultPermission,
               allowComments |-> body.allowComments,
               allowDownload |-> body.allowDownload,
               expiresAt |-> None, createdBy |-> userId ]
        ELSE [Get(doc.shareSettings) EXCEPT !.permissionLinks = NoLinks]
  IN [doc EXCEPT
        !.shareSettings = Some([settings EXCEPT
            !.permissionLinks[body.defaultPermission] =
                Some([token |-> shareToken, url |-> ShareUrl(shareToken)]),
            !.allowComments = body.allowComments,
            !.allowDownload = body.allowDownload]),
        !.isShared = TRUE,
        !.shareLink = Some(ShareUrl(shareToken))]

(* POST /:id/share from the token minting to the save. *)
WithNewLink(doc, userId, body, shareToken) ==
  LET settings ==
        IF ~IsSome(doc.shareSettings)
        THEN [ isPublic |-> TRUE, permissionLinks |-> NoLinks,
               defaultPermission |-> body.defaultPermission,
               allowComments |-> body.allowComments,
               allowDownload |-> body.allowDownload,
               expiresAt |-> None, createdBy |-> userId ]
        ELSE Get(doc.shareSettings)
  IN [doc EXCEPT
        !.shareSettings = Some([settings EXCEPT
            !.permissionLinks[body.defaultPermission] =
                Some([token |-> shareToken, url |-> ShareUrl(shareToken)]),
            !.allowComments = body.allowComments,
            !.allowDownload = body.allowDownload]),
        !.isShared = TRUE,
        !.shareLink = Some(ShareUrl(shareToken))]

(* The update that replaces the settings object by the request's values. *)
WithSettingsReplaced(doc, body) ==
  [doc EXCEPT !.shareSettings = Some([Get(doc.shareSettings) EXCEPT
      !.isPublic = body.isPublic,
      !.permissionLinks = NoLinks,
      !.defaultPermission = body.defaultPermission,
      !.allowComments = body.allowComments,
      !.allowDownload = body.allowDownload,
      !.expiresAt = body.expiresAt])]

(* PUT /:id/share: the settings are updated in place. *)
WithSettings(doc, body) ==
  [doc EXCEPT !.shareSettings = Some([Get(doc.shareSettings) EXCEPT
      !.isPublic = body.isPublic,
      !.defaultPermission = body.defaultPermission,
      !.allowComments = body.allowComments,
      !.allowDownload = body.allowDownload,
      !.expiresAt = IF IsSome(body.expiresAt) THEN body.expiresAt ELSE @])]

(* The revocation that leaves the share settings in place. *)
RevokedFlagsOnly(doc) ==
  [doc EXCEPT !.isShared = FALSE, !.shareLink = None]

(* DELETE /:id/share *)
Revoked(doc) ==
  [doc EXCEPT !.shareSettings = None, !.isShared = FALSE, !.shareLink = None]

(* The documents GET /shared/:token's findOne matches. *)
DocumentsWithToken(docs, token) ==
  {id \in DocIds :
     /\ IsSome(docs[id]) /\ IsSome(Get(docs[id]).shareSettings)
     /\ Get(Get(docs[id]).shareSettings).isPublic
     /\ \E p \in LinkPermissions :
          LET l == Get(Get(docs[id]).shareSettings).permissionLinks[p]
          IN IsSome(l) /\ Get(l).token = token}

(* The expiry test with the comparison turned round. *)
ExpiredReversed(doc, time) ==
  IsSome(Get(doc.shareSettings).expiresAt) /\ time < Get(Get(doc.shareSettings).expiresAt)

(* expiresAt && new Date() > new Date(expiresAt) *)
Expired(doc, time) ==
  IsSome(Get(doc.shareSettings).expiresAt) /\ time > Get(Get(doc.shareSettings).expiresAt)

HoldsToken(doc, p, token) ==
  LET l == Get(doc.shareSettings).permissionLinks[p]
  IN IsSome(l) /\ Get(l).token = token

(* "Determine the permission level for this token" *)
PermissionOfToken(doc, token) ==
  IF HoldsToken(doc, "write", token) THEN "write"
  ELSE IF HoldsToken(doc, "comment", token) THEN "comment"
  ELSE "read"

(***************************************************************************)
(* models/Version.js                                                       *)
(***************************************************************************)
VersionsOf(vs, documentId) ==
  {i \in 1..Len(vs) : vs[i].documentId = documentId}

MaxNat(S) == CHOOSE x \in S : \A y \in S : y <= x

(* The query without its documentId filter: the highest number of any     *)
(* document.                                                               *)
getNextVersionNumberAnyDocument(vs, documentId) ==
  IF Len(vs) = 0 THEN 1
  ELSE MaxNat({vs[i].versionNumber : i \in 1..Len(vs)}) + 1

(* The numbering that starts at 0 for a document without versions. *)
getNextVersionNumberFromZero(vs, documentId) ==
  LET mine == VersionsOf(vs, documentId) IN
  IF mine = {} THEN 0
  ELSE MaxNat({vs[i].versionNumber : i \in mine}) + 1

(* findOne({documentId}).sort({versionNumber: -1}); lastVersion + 1 or 1. *)
getNextVersionNumber(vs, documentId) ==
  LET mine == VersionsOf(vs, documentId) IN
  IF mine = {} THEN 1
  ELSE MaxNat({vs[i].versionNumber : i \in mine}) + 1

(* new this({...}) of createVersion, with the number read before. *)
NewVersion(documentId, content, title, authorId, changes, versionNumber, isAutoSave) ==
  [ documentId |-> documentId, content |-> content, title |-> title,
    authorId |-> authorId, changes |-> changes,
    versionNumber |-> versionNumber, isAutoSave |-> isAutoSave ]

Reverse(s) == [i \in 1..Len(s) |-> s[Len(s) + 1 - i]]

(* find({ documentId }).sort({ createdAt: -1 }).limit(limit).skip(skip):   *)
(* createdAt is the time of the insertion, so the order is the reverse of  *)
(* the order in which the versions were inserted; the cursor skips before  *)
(* it limits, in whichever order the two are given.                        *)
getDocumentHistory(vs, documentId, limit, skip) ==
  LET sorted == Reverse(SelectSeq(vs, LAMBDA v : v.documentId = documentId))
      last == IF skip + limit < Len(sorted) THEN skip + limit ELSE Len(sorted)
  IN SubSeq(sorted, skip + 1, last)

(***************************************************************************)
(* Requests.                                                               *)
(***************************************************************************)
NoBody ==
  [ isPublic |-> FALSE, defaultPermission |-> "read", allowComments |-> TRUE,
    allowDownload |-> TRUE, expiresAt |-> None ]

IdleReq ==
  [ pc |-> "idle", op |-> "none", user |-> "u1", id |-> "d1", doc |-> None,
    perm |-> "read", token |-> None, content |-> None, title |-> None,
    changes |-> "", autoSave |-> FALSE, vnum |-> 0, status |-> 0,
    dirty |-> {}, newVersion |-> FALSE, body |-> NoBody, bearer |-> None,
    restore |-> None, page |-> 1, limit |-> 1, listing |-> <<>>, total |-> 0,
    pushed |-> <<>>, matched |-> {} ]

Respond(req, code) == [req EXCEPT !.pc = "done", !.status = code]

(* The store after POST / has run once: d1 exists, d2 is not created yet. *)
InitVersions ==
  << NewVersion("d1", EmptyContent, DefaultTitle, "u1", "Document created", 1, FALSE) >>

InitDocuments ==
  [d \in DocIds |-> IF d = "d1"
                    THEN Some(PreSave(NewDocument("u1", DefaultTitle, EmptyContent), TRUE))
                    ELSE None]

NoProbe == [user |-> "u1", id |-> "d1", perm |-> "read", result |-> "none"]

Init ==
  /\ documents = InitDocuments
  /\ versions = InitVersions
  /\ reqs = [r \in Slots |-> IdleReq]
  /\ now = 0
  /\ probe = NoProbe

(***************************************************************************)
(* POST / (create).                                                        *)
(***************************************************************************)

(* title || "Untitled Document", content || "" *)
OrDefault(o, default, empty) == IF IsSome(o) /\ Get(o) /= empty THEN Get(o) ELSE default

(* new Document(...); await document.save(); then createVersion is called   *)
(* with the saved content and title and "Document created".                 *)
CreateSave(r, user, id, title, content) ==
  /\ reqs[r].pc = "idle"
  /\ ~IsSome(documents[id])
  /\ LET document == PreSave(NewDocument(user, OrDefault(title, DefaultTitle, ""),
                                         OrDefault(content, EmptyContent, <<>>)), TRUE)
     IN /\ documents' = [documents EXCEPT ![id] = Some(document)]
        /\ reqs' = [reqs EXCEPT ![r] =
              [IdleReq EXCEPT !.pc = "readMax", !.op = "create", !.user = user,
                              !.id = id, !.doc = Some(document),
                              !.content = Some(document.content),
                              !.title = Some(document.title),
                              !.changes = "Document created", !.autoSave = FALSE]]
  /\ UNCHANGED <<versions, now, probe>>

(***************************************************************************)
(* POST /:id/versions (manual save).                                       *)
(***************************************************************************)

(* findById, the 404 and 403 checks; then createVersion is called. *)
PostVersionLoad(r, user, id, changes) ==
  /\ reqs[r].pc = "idle"
  /\ LET req == [IdleReq EXCEPT !.op = "postVersion", !.user = user, !.id = id,
                                !.doc = documents[id], !.changes = changes,
                                !.autoSave = FALSE]
     IN reqs' = [reqs EXCEPT ![r] =
          IF ~IsSome(documents[id]) THEN Respond(req, 404)
          ELSE LET access == hasAccess(Get(documents[id]), user, "write") IN
               IF access = "throws" THEN Respond(req, 500)
               ELSE IF access = "denied" THEN Respond(req, 403)
               ELSE [req EXCEPT !.pc = "readMax",
                                !.content = Some(Get(documents[id]).content),
                                !.title = Some(Get(documents[id]).title)]]
  /\ UNCHANGED <<documents, versions, now, probe>>

(* createVersion, first await: getNextVersionNumber. *)
ReadMax(r) ==
  /\ reqs[r].pc = "readMax"
  /\ reqs' = [reqs EXCEPT ![r].pc = "insertVersion",
                          ![r].vnum = getNextVersionNumber(versions, reqs[r].id)]
  /\ UNCHANGED <<documents, versions, now, probe>>

StatusAfterVersion(op) == IF op = "put" THEN 200 ELSE 201

(* createVersion, second await: version.save(); the handler then responds. *)
InsertVersion(r) ==
  /\ reqs[r].pc = "insertVersion"
  /\ Len(versions) < MaxVersions
  /\ versions' = Append(versions,
        NewVersion(reqs[r].id, Get(reqs[r].content), Get(reqs[r].title),
                   reqs[r].user, reqs[r].changes, reqs[r].vnum, reqs[r].autoSave))
  /\ reqs' = [reqs EXCEPT ![r] = Respond(reqs[r], StatusAfterVersion(reqs[r].op))]
  /\ UNCHANGED <<documents, now, probe>>

(* The response is taken; the slot is free for the next request. *)
Reset(r) ==
  /\ reqs[r].pc = "done"
  /\ reqs' = [reqs EXCEPT ![r] = IdleReq]
  /\ UNCHANGED <<documents, versions, now, probe>>

ManualChanges == {"Manual save"}

(***************************************************************************)
(* document.save() of a loaded document, and what the handler does next.   *)
(***************************************************************************)
SaveDoc(r) ==
  /\ reqs[r].pc = "saveDoc"
  /\ LET req == reqs[r]
         stored == documents[req.id]
     IN IF ~IsSome(stored)
        THEN /\ reqs' = [reqs EXCEPT ![r] = Respond(req, 500)]
             /\ UNCHANGED documents
        ELSE /\ documents' = [documents EXCEPT ![req.id] =
                    Some(SavedWithPush(Get(stored), Get(req.doc), req.dirty, req.pushed))]
             /\ reqs' = [reqs EXCEPT ![r] =
                    IF req.newVersion THEN [req EXCEPT !.pc = "readMax"]
                    ELSE Respond(req, 200)]
  /\ UNCHANGED <<versions, now, probe>>

(* The request after findById. *)
Loaded(op, user, id) ==
  [IdleReq EXCEPT !.op = op, !.user = user, !.id = id, !.doc = documents[id]]

(* The handler has modified its document and awaits document.save(). *)
ToSave(req, before, after) ==
  [req EXCEPT !.pc = "saveDoc", !.doc = Some(after),
              !.dirty = ModifiedPaths(before, after)]

(***************************************************************************)
(* PUT /:id                                                                *)
(***************************************************************************)
(* The test that takes every update carrying content for a change. *)
ContentSent(content, oldContent) == IsSome(content)

(* content !== undefined && content !== oldContent *)
ContentChanged(content, oldContent) == IsSome(content) /\ Get(content) /= oldContent

(* PUT /:id from findById to the call of document.save(): the request's   *)
(* locals, or its response when it ends here.                             *)
PutRequest(user, id, title, content, status, bearer) ==
  LET req == [Loaded("put", user, id) EXCEPT !.bearer = bearer] IN
  IF ~IsSome(documents[id]) THEN Respond(req, 404)
  ELSE LET document == Get(documents[id])
           access == hasAccess(document, user, "write")
       IN IF access = "throws" THEN Respond(req, 500)
          ELSE IF access = "denied" THEN Respond(req, 403)
          ELSE LET oldContent == document.content
                   edited == [document EXCEPT
                      !.title = IF IsSome(title) THEN Get(title) ELSE @,
                      !.content = IF IsSome(content) THEN Get(content) ELSE @,
                      !.status = IF IsSome(status) THEN Get(status) ELSE @,
                      !.lastEditedBy = user]
               IN [ToSave(req, document, edited) EXCEPT
                     !.newVersion = ContentChanged(content, oldContent),
                     !.content = Some(edited.content),
                     !.title = Some(edited.title),
                     !.changes = "Content updated",
                     !.autoSave = TRUE]

PutLoad(r, user, id, title, content, status, bearer) ==
  /\ reqs[r].pc = "idle"
  /\ reqs' = [reqs EXCEPT ![r] = PutRequest(user, id, title, content, status, bearer)]
  /\ UNCHANGED <<documents, versions, now, probe>>

(* The restore that sends the version's title and no content. *)
RestoreVersionTitleOnly(r, user, id, versionId) ==
  /\ reqs[r].pc = "idle"
  /\ IsSome(documents[id])
  /\ reqs' = [reqs EXCEPT ![r] =
        IF versionId \in VersionsOf(versions, id)
        THEN [PutRequest(user, id, Some(versions[versionId].title), None, None, None)
                EXCEPT !.restore = Some(versionId)]
        ELSE Respond([Loaded("restore", user, id) EXCEPT !.restore = Some(versionId)], 0)]
  /\ UNCHANGED <<documents, versions, now, probe>>

(***************************************************************************)
(* restoreVersion of the client (contexts/DocumentContext.tsx): the        *)
(* version is looked up among the versions of the open document; when it   *)
(* is found, updateDocument sends PUT /:id with its content and nothing    *)
(* else; when it is not, nothing is sent.  A version id is the position of *)
(* the version in the store.                                               *)
(***************************************************************************)
RestoreVersion(r, user, id, versionId) ==
  /\ reqs[r].pc = "idle"
  /\ IsSome(documents[id])
  /\ reqs' = [reqs EXCEPT ![r] =
        IF versionId \in VersionsOf(versions, id)
        THEN [PutRequest(user, id, None, Some(versions[versionId].content), None, None)
                EXCEPT !.restore = Some(versionId)]
        ELSE Respond([Loaded("restore", user, id) EXCEPT !.restore = Some(versionId)], 0)]
  /\ UNCHANGED <<documents, versions, now, probe>>

(***************************************************************************)
(* GET / with no search, folder or status filter.                          *)
(***************************************************************************)

(* The query that leaves out the collaborator clause. *)
MatchesOwnerOrPublic(doc, userId) ==
  \/ doc.ownerId = userId
  \/ IsSome(doc.shareSettings) /\ Get(doc.shareSettings).isPublic

(* $or: [{ownerId}, {"collaborators.user"}, {"shareSettings.isPublic": true}] *)
MatchesListing(doc, userId) ==
  \/ doc.ownerId = userId
  \/ \E i \in 1..Len(doc.collaborators) : doc.collaborators[i].user = userId
  \/ IsSome(doc.shareSettings) /\ Get(doc.shareSettings).isPublic

(* Document.find(query) *)
FindListed(docs, userId) ==
  {id \in DocIds : IsSome(docs[id]) /\ MatchesListing(Get(docs[id]), userId)}

ListFind(r, user) ==
  /\ reqs[r].pc = "idle"
  /\ reqs' = [reqs EXCEPT ![r] =
        [IdleReq EXCEPT !.op = "list", !.user = user, !.pc = "countDocuments",
                        !.matched = FindListed(documents, user)]]
  /\ UNCHANGED <<documents, versions, now, probe>>

(* Document.countDocuments(query); the handler then responds. *)
ListCount(r) ==
  /\ reqs[r].pc = "countDocuments"
  /\ reqs' = [reqs EXCEPT ![r] =
        Respond([reqs[r] EXCEPT
                   !.total = Cardinality(FindListed(documents, reqs[r].user))], 200)]
  /\ UNCHANGED <<documents, versions, now, probe>>

(***************************************************************************)
(* GET /:id: findById, the 404 and the access check; the document is the   *)
(* response.                                                               *)
(***************************************************************************)
GetLoad(r, user, id) ==
  /\ reqs[r].pc = "idle"
  /\ LET req == Loaded("get", user, id)
     IN reqs' = [reqs EXCEPT ![r] =
          IF ~IsSome(documents[id]) THEN Respond(req, 404)
          ELSE LET document == Get(documents[id])
                   access == hasAccess(document, user, "read")
               IN IF access = "throws" THEN Respond(req, 500)
                  ELSE IF access = "denied" THEN Respond(req, 403)
                  ELSE Respond([req EXCEPT !.content = Some(document.content)], 200)]
  /\ UNCHANGED <<documents, versions, now, probe>>

(***************************************************************************)
(* GET /:id/versions                                                       *)
(***************************************************************************)

(* findById, the 404 and the access check; page and limit of the query. *)
HistoryLoad(r, user, id, page, limit) ==
  /\ reqs[r].pc = "idle"
  /\ LET req == [Loaded("history", user, id) EXCEPT !.page = page, !.limit = limit]
     IN reqs' = [reqs EXCEPT ![r] =
          IF ~IsSome(documents[id]) THEN Respond(req, 404)
          ELSE LET access == hasAccess(Get(documents[id]), user, "read") IN
               IF access = "throws" THEN Respond(req, 500)
               ELSE IF access = "denied" THEN Respond(req, 403)
               ELSE [req EXCEPT !.pc = "listVersions"]]
  /\ UNCHANGED <<documents, versions, now, probe>>

(* Version.getDocumentHistory(id, limit, skip) with skip = (page - 1) * limit *)
ListVersions(r) ==
  /\ reqs[r].pc = "listVersions"
  /\ reqs' = [reqs EXCEPT ![r].pc = "countVersions",
                          ![r].listing = getDocumentHistory(versions, reqs[r].id,
                              reqs[r].limit, (reqs[r].page - 1) * reqs[r].limit)]
  /\ UNCHANGED <<documents, versions, now, probe>>

(* Version.countDocuments({ documentId }); the handler then responds. *)
CountVersions(r) ==
  /\ reqs[r].pc = "countVersions"
  /\ reqs' = [reqs EXCEPT ![r] =
        Respond([reqs[r] EXCEPT !.total = Cardinality(VersionsOf(versions, reqs[r].id))], 200)]
  /\ UNCHANGED <<documents, versions, now, probe>>

(***************************************************************************)
(* DELETE /:id                                                             *)
(***************************************************************************)

(* findById, the 404 and the owner check. *)
DeleteLoad(r, user, id) ==
  /\ reqs[r].pc = "idle"
  /\ LET req == Loaded("delete", user, id)
     IN reqs' = [reqs EXCEPT ![r] =
          IF ~IsSome(documents[id]) THEN Respond(req, 404)
          ELSE IF Get(documents[id]).ownerId /= user THEN Respond(req, 403)
          ELSE [req EXCEPT !.pc = "deleteVersions"]]
  /\ UNCHANGED <<documents, versions, now, probe>>

(* Version.deleteMany({ documentId }) *)
WithoutVersionsOf(vs, documentId) ==
  SelectSeq(vs, LAMBDA v : v.documentId /= documentId)

DeleteVersions(r) ==
  /\ reqs[r].pc = "deleteVersions"
  /\ versions' = WithoutVersionsOf(versions, reqs[r].id)
  /\ reqs' = [reqs EXCEPT ![r].pc = "deleteDoc"]
  /\ UNCHANGED <<documents, now, probe>>

(* Document.findByIdAndDelete(id); the handler then responds. *)
DeleteDoc(r) ==
  /\ reqs[r].pc = "deleteDoc"
  /\ documents' = [documents EXCEPT ![reqs[r].id] = None]
  /\ reqs' = [reqs EXCEPT ![r] = Respond(reqs[r], 200)]
  /\ UNCHANGED <<versions, now, probe>>

(***************************************************************************)
(* addCollaborator and removeCollaborator called on a loaded document.     *)
(***************************************************************************)
CollabAdd(r, id, userId, permission) ==
  /\ reqs[r].pc = "idle"
  /\ IsSome(documents[id])
  /\ LET document == Get(documents[id])
     IN reqs' = [reqs EXCEPT ![r] =
          [ToSave(Loaded("addCollaborator", userId, id), document,
                  addCollaborator(document, userId, permission))
             EXCEPT !.pushed = IF FindCollaboratorIndex(document, userId) = 0
                               THEN <<[user |-> userId, permission |-> permission]>>
                               ELSE <<>>]]
  /\ UNCHANGED <<documents, versions, now, probe>>

CollabRemove(r, id, userId) ==
  /\ reqs[r].pc = "idle"
  /\ IsSome(documents[id])
  /\ LET document == Get(documents[id])
     IN reqs' = [reqs EXCEPT ![r] =
          ToSave(Loaded("removeCollaborator", userId, id), document,
                 removeCollaborator(document, userId))]
  /\ UNCHANGED <<documents, versions, now, probe>>

(***************************************************************************)
(* POST /:id/share, PUT /:id/share, DELETE /:id/share, GET /shared/:token  *)
(***************************************************************************)
ShareIssueLoad(r, user, id, body, shareToken) ==
  /\ reqs[r].pc = "idle"
  /\ LET req == [Loaded("shareIssue", user, id) EXCEPT
                   !.body = body, !.perm = body.defaultPermission]
     IN reqs' = [reqs EXCEPT ![r] =
          IF ~IsSome(documents[id]) THEN Respond(req, 404)
          ELSE LET document == Get(documents[id])
                   existingLink == ExistingLink(document, body.defaultPermission)
               IN IF ~MayShare(document, user) THEN Respond(req, 403)
                  ELSE IF IsSome(existingLink)
                       THEN Respond([req EXCEPT !.token = Some(Get(existingLink).token)], 200)
                  ELSE [ToSave(req, document, WithNewLink(document, user, body, shareToken))
                          EXCEPT !.token = Some(shareToken)]]
  /\ UNCHANGED <<documents, versions, now, probe>>

(* The update that creates the share settings when the document has none. *)
ShareUpdateLoadInit(r, user, id, body) ==
  /\ reqs[r].pc = "idle"
  /\ LET req == [Loaded("shareUpdate", user, id) EXCEPT !.body = body]
     IN reqs' = [reqs EXCEPT ![r] =
          IF ~IsSome(documents[id]) THEN Respond(req, 404)
          ELSE LET document == Get(documents[id])
                   initialised ==
                     [document EXCEPT !.shareSettings = Some(
                        [ isPublic |-> TRUE, permissionLinks |-> NoLinks,
                          defaultPermission |-> body.defaultPermission,
                          allowComments |-> body.allowComments,
                          allowDownload |-> body.allowDownload,
                          expiresAt |-> None, createdBy |-> user ])]
               IN IF ~MayShare(document, user) THEN Respond(req, 403)
                  ELSE IF ~IsSome(document.shareSettings)
                       THEN ToSave(req, document, WithSettings(initialised, body))
                  ELSE ToSave(req, document, WithSettings(document, body))]
  /\ UNCHANGED <<documents, versions, now, probe>>

ShareUpdateLoad(r, user, id, body) ==
  /\ reqs[r].pc = "idle"
  /\ LET req == [Loaded("shareUpdate", user, id) EXCEPT !.body = body]
     IN reqs' = [reqs EXCEPT ![r] =
          IF ~IsSome(documents[id]) THEN Respond(req, 404)
          ELSE LET document == Get(documents[id])
               IN IF ~MayShare(document, user) THEN Respond(req, 403)
                  ELSE IF ~IsSome(document.shareSettings) THEN Respond(req, 400)
                  ELSE ToSave(req, document, WithSettings(document, body))]
  /\ UNCHANGED <<documents, versions, now, probe>>

ShareRevokeLoad(r, user, id) ==
  /\ reqs[r].pc = "idle"
  /\ LET req == Loaded("shareRevoke", user, id)
     IN reqs' = [reqs EXCEPT ![r] =
          IF ~IsSome(documents[id]) THEN Respond(req, 404)
          ELSE LET document == Get(documents[id])
               IN IF ~MayShare(document, user) THEN Respond(req, 403)
                  ELSE ToSave(req, document, Revoked(document))]
  /\ UNCHANGED <<documents, versions, now, probe>>

(* findOne returns one of the matching documents. *)
Resolve(r, user, token) ==
  /\ reqs[r].pc = "idle"
  /\ LET req == [IdleReq EXCEPT !.op = "resolve", !.user = user, !.bearer = Some(token)]
         found == DocumentsWithToken(documents, token)
     IN IF found = {}
        THEN reqs' = [reqs EXCEPT ![r] = Respond(req, 404)]
        ELSE \E id \in found :
               LET document == Get(documents[id]) IN
               reqs' = [reqs EXCEPT ![r] =
                 IF Expired(document, now) THEN Respond([req EXCEPT !.id = id], 410)
                 ELSE Respond([req EXCEPT !.id = id, !.doc = Some(document),
                                          !.perm = PermissionOfToken(document, token),
                                          !.content = Some(document.content)], 200)]
  /\ UNCHANGED <<documents, versions, now, probe>>

(* hasAccess applied to a stored document. *)
Probe(user, id, perm) ==
  /\ IsSome(documents[id])
  /\ probe' = [user |-> user, id |-> id, perm |-> perm,
               result |-> hasAccess(Get(documents[id]), user, perm)]
  /\ UNCHANGED <<documents, versions, reqs, now>>

(* Time passes. *)
Tick ==
  /\ now < MaxTime
  /\ now' = now + 1
  /\ UNCHANGED <<documents, versions, reqs, probe>>

(* No other request is in flight. *)
Alone(r) == \A q \in Slots \ {r} : reqs[q].pc = "idle"

(***************************************************************************)
(* Concurrent appends: owners save versions of their documents, the        *)
(* requests interleaving at every await.                                   *)
(***************************************************************************)
NextAppend ==
  \E r \in Slots :
    \/ \E id \in DocIds, c \in Contents :
         CreateSave(r, OwnerOf(id), id, None, Some(c))
    \/ \E id \in DocIds, c \in ManualChanges : PostVersionLoad(r, OwnerOf(id), id, c)
    \/ ReadMax(r)
    \/ InsertVersion(r)
    \/ Reset(r)

SpecAppend == Init /\ [][NextAppend]_vars

(***************************************************************************)
(* Appends that do not overlap: a createVersion on a document starts only  *)
(* when no other createVersion on that document is between its read and    *)
(* its save.  Appends on other documents interleave freely.                *)
(***************************************************************************)
AppendInProgress(id) ==
  \E r \in Slots : reqs[r].pc = "insertVersion" /\ reqs[r].id = id

ReadMaxAlone(r) == ~AppendInProgress(reqs[r].id) /\ ReadMax(r)

NextAppendSeq ==
  \E r \in Slots :
    \/ \E id \in DocIds, c \in Contents :
         CreateSave(r, OwnerOf(id), id, None, Some(c))
    \/ \E id \in DocIds, c \in ManualChanges : PostVersionLoad(r, OwnerOf(id), id, c)
    \/ ReadMaxAlone(r)
    \/ InsertVersion(r)
    \/ Reset(r)

SpecAppendSeq == Init /\ [][NextAppendSeq]_vars

(***************************************************************************)
(* The access evaluator on the documents the collaborator and share        *)
(* operations produce: one request at a time on document d1, and hasAccess *)
(* applied to every user and every required permission.                    *)
(***************************************************************************)
AccessBodies == { [NoBody EXCEPT !.isPublic = b] : b \in BOOLEAN }

AccessCollaborators ==
  { <<"u2", p>> : p \in CollabPermissions } \cup { <<"u3", "write">> }

NextAccess ==
  \/ \E r \in Slots :
       \/ \E c \in AccessCollaborators : Alone(r) /\ CollabAdd(r, "d1", c[1], c[2])
       \/ \E u \in Users \ {"u1"} : Alone(r) /\ CollabRemove(r, "d1", u)
       \/ Alone(r) /\ ShareIssueLoad(r, "u1", "d1", NoBody, "t1")
       \/ \E b \in AccessBodies : Alone(r) /\ ShareUpdateLoad(r, "u1", "d1", b)
       \/ Alone(r) /\ ShareRevokeLoad(r, "u1", "d1")
       \/ SaveDoc(r)
       \/ Reset(r)
  \/ \E u \in Users, p \in RequiredPermissions : Probe(u, "d1", p)

SpecAccess == Init /\ [][NextAccess]_vars

(***************************************************************************)
(* Edits and manual saves of document d1 by its owner u1, by u2 (who may   *)
(* be a read or a write collaborator) and by u3 (a stranger, who may bear  *)
(* a share token), one request at a time.                                  *)
(***************************************************************************)
EditLinks == { <<"read", "t1">>, <<"write", "t2">> }

NextEdit ==
  \E r \in Slots :
    \/ \E u \in Users, c \in {None, Some(ContentA)}, b \in {None} \cup {Some(t) : t \in Tokens} :
         Alone(r) /\ PutLoad(r, u, "d1", None, c, None, b)
    \/ \E u \in Users, c \in ManualChanges : Alone(r) /\ PostVersionLoad(r, u, "d1", c)
    \/ \E p \in {"read", "write"} : Alone(r) /\ CollabAdd(r, "d1", "u2", p)
    \/ \E l \in EditLinks :
         Alone(r) /\ ShareIssueLoad(r, "u1", "d1", [NoBody EXCEPT !.defaultPermission = l[1]], l[2])
    \/ SaveDoc(r)
    \/ ReadMax(r)
    \/ InsertVersion(r)
    \/ Reset(r)

SpecEdit == Init /\ [][NextEdit]_vars

(***************************************************************************)
(* The share-link registry of document d1, one request at a time: the      *)
(* owner issues links, updates the settings and revokes; anyone resolves   *)
(* tokens; time passes.                                                    *)
(***************************************************************************)
IssueBodies == { [NoBody EXCEPT !.defaultPermission = p] : p \in LinkPermissions }

UpdateBodies ==
  { [NoBody EXCEPT !.isPublic = b, !.expiresAt = e] :
      b \in BOOLEAN, e \in {None, Some(1)} }

NextShare ==
  \/ \E r \in Slots :
       \/ \E b \in IssueBodies, t \in Tokens : Alone(r) /\ ShareIssueLoad(r, "u1", "d1", b, t)
       \/ \E b \in UpdateBodies : Alone(r) /\ ShareUpdateLoad(r, "u1", "d1", b)
       \/ Alone(r) /\ ShareRevokeLoad(r, "u1", "d1")
       \/ \E t \in Tokens : Alone(r) /\ Resolve(r, "u3", t)
       \/ SaveDoc(r)
       \/ Reset(r)
  \/ Tick

SpecShare == Init /\ [][NextShare]_vars

(***************************************************************************)
(* Concurrent issuance: requests for the read link of d1 interleave at the *)
(* awaits of the handler (findById, save); tokens are resolved meanwhile.  *)
(***************************************************************************)
RaceBodies == { [NoBody EXCEPT !.allowDownload = b] : b \in BOOLEAN }

NextIssueRace ==
  \E r \in Slots :
    \/ \E b \in RaceBodies, t \in Tokens : ShareIssueLoad(r, "u1", "d1", b, t)
    \/ \E t \in Tokens : Resolve(r, "u3", t)
    \/ SaveDoc(r)
    \/ Reset(r)

SpecIssueRace == Init /\ [][NextIssueRace]_vars

(***************************************************************************)
(* The registry over two documents, one request at a time: u2 creates d2,  *)
(* the owners issue links of every capability, anyone resolves tokens.     *)
(* A minted token is any value the generator can return.                   *)
(***************************************************************************)
NextRegistry ==
  \E r \in Slots :
    \/ Alone(r) /\ CreateSave(r, "u2", "d2", None, Some(ContentB))
    \/ \E id \in DocIds, b \in IssueBodies, t \in Tokens :
         Alone(r) /\ ShareIssueLoad(r, OwnerOf(id), id, b, t)
    \/ \E t \in Tokens : Alone(r) /\ Resolve(r, "u3", t)
    \/ SaveDoc(r)
    \/ ReadMax(r)
    \/ InsertVersion(r)
    \/ Reset(r)

SpecRegistry == Init /\ [][NextRegistry]_vars


(***************************************************************************)
(* Revocation with concurrent readers: the owner's requests (issue a link  *)
(* of d1, revoke) run one at a time in the first slot; the other slots     *)
(* resolve tokens at any moment, also between the findById and the save of *)
(* a revoke.                                                               *)
(***************************************************************************)
RevokeBodies == { [NoBody EXCEPT !.defaultPermission = p] : p \in {"read", "write"} }

OwnerSlot == 1

NextRevoke ==
  \/ \E b \in RevokeBodies, t \in Tokens : ShareIssueLoad(OwnerSlot, "u1", "d1", b, t)
  \/ ShareRevokeLoad(OwnerSlot, "u1", "d1")
  \/ SaveDoc(OwnerSlot)
  \/ \E r \in Slots \ {OwnerSlot}, t \in Tokens : Resolve(r, "u3", t)
  \/ \E r \in Slots : Reset(r)

SpecRevoke == Init /\ [][NextRevoke]_vars


(***************************************************************************)
(* Expiry over two documents, one request at a time: the owner of d1       *)
(* issues its read and write links and updates the settings (isPublic,     *)
(* expiresAt); u2 creates d2 and issues its read link; anyone resolves     *)
(* tokens; time passes between the requests.                               *)
(***************************************************************************)
Idle == \A r \in Slots : reqs[r].pc = "idle"

NextExpiry ==
  \/ \E r \in Slots :
       \/ \E b \in RevokeBodies, t \in Tokens : Alone(r) /\ ShareIssueLoad(r, "u1", "d1", b, t)
       \/ \E b \in UpdateBodies : Alone(r) /\ ShareUpdateLoad(r, "u1", "d1", b)
       \/ Alone(r) /\ CreateSave(r, "u2", "d2", None, Some(ContentB))
       \/ \E t \in Tokens : Alone(r) /\ ShareIssueLoad(r, "u2", "d2", NoBody, t)
       \/ \E t \in Tokens : Alone(r) /\ Resolve(r, "u3", t)
       \/ SaveDoc(r)
       \/ ReadMax(r)
       \/ InsertVersion(r)
       \/ Reset(r)
  \/ Idle /\ Tick

SpecExpiry == Init /\ [][NextExpiry]_vars


(***************************************************************************)
(* Updates of document d1 by its owner and by u3 (who has no access), one   *)
(* request at a time: title, content and status in any combination, the    *)
(* content equal to the stored one or not.                                 *)
(***************************************************************************)
PutTitles == {None, Some("Notes")}
PutContents == {None} \cup {Some(c) : c \in Contents}
PutStatuses == {None, Some("published")}

NextPut ==
  \E r \in Slots :
    \/ \E u \in {"u1", "u3"}, t \in PutTitles, c \in PutContents, s \in PutStatuses :
         Alone(r) /\ PutLoad(r, u, "d1", t, c, s, None)
    \/ SaveDoc(r)
    \/ ReadMax(r)
    \/ InsertVersion(r)
    \/ Reset(r)

SpecPut == Init /\ [][NextPut]_vars


(***************************************************************************)
(* Creation: u2 creates d2 with any title and content while manual saves   *)
(* of d1 go on; the requests interleave at every await.  A request on d2   *)
(* starts once the creation has answered: the 201 response is where the    *)
(* id of the new document is given out.                                    *)
(***************************************************************************)
CreateInProgress(id) ==
  \E r \in Slots : /\ reqs[r].op = "create" /\ reqs[r].id = id
                   /\ reqs[r].pc \in {"readMax", "insertVersion"}

CreateContents == {None} \cup {Some(c) : c \in Contents}
CreateTitles == {None, Some("Notes")}

NextCreate ==
  \E r \in Slots :
    \/ \E t \in CreateTitles, c \in CreateContents : CreateSave(r, "u2", "d2", t, c)
    \/ \E id \in DocIds, c \in ManualChanges :
         ~CreateInProgress(id) /\ PostVersionLoad(r, OwnerOf(id), id, c)
    \/ ReadMax(r)
    \/ InsertVersion(r)
    \/ Reset(r)

SpecCreate == Init /\ [][NextCreate]_vars


(***************************************************************************)
(* Deletion of d1 by its owner while the owner's updates and manual saves  *)
(* of d1 go on; the requests interleave at every await.  u2 may try to     *)
(* delete as well.  Deletions are sent from one slot, the updates and      *)
(* manual saves from the others.                                           *)
(***************************************************************************)
NextDelete ==
  \/ \E u \in {"u1", "u2"} : DeleteLoad(OwnerSlot, u, "d1")
  \/ DeleteVersions(OwnerSlot)
  \/ DeleteDoc(OwnerSlot)
  \/ \E r \in Slots \ {OwnerSlot} :
       \/ PutLoad(r, "u1", "d1", None, Some(ContentB), None, None)
       \/ \E c \in ManualChanges : PostVersionLoad(r, "u1", "d1", c)
       \/ SaveDoc(r)
       \/ ReadMax(r)
       \/ InsertVersion(r)
  \/ \E r \in Slots : Reset(r)

SpecDelete == Init /\ [][NextDelete]_vars


(***************************************************************************)
(* Restores: the owner of d1 edits its title and content and restores      *)
(* versions of it, known or not, one request at a time.                    *)
(***************************************************************************)
VersionIds == 1..(MaxVersions + 1)

NextRestore ==
  \E r \in Slots :
    \/ \E t \in PutTitles, c \in PutContents :
         Alone(r) /\ PutLoad(r, "u1", "d1", t, c, None, None)
    \/ \E v \in VersionIds : Alone(r) /\ RestoreVersion(r, "u1", "d1", v)
    \/ SaveDoc(r)
    \/ ReadMax(r)
    \/ InsertVersion(r)
    \/ Reset(r)

SpecRestore == Init /\ [][NextRestore]_vars


(***************************************************************************)
(* The version history of d1 is listed, page by page, while its owner's    *)
(* manual saves go on; the requests interleave at every await.             *)
(***************************************************************************)
MaxPage == 3
MaxLimit == 2

NextHistory ==
  \E r \in Slots :
    \/ \E c \in ManualChanges : PostVersionLoad(r, "u1", "d1", c)
    \/ ReadMax(r)
    \/ InsertVersion(r)
    \/ \E p \in 1..MaxPage, l \in 1..MaxLimit : HistoryLoad(r, "u1", "d1", p, l)
    \/ ListVersions(r)
    \/ CountVersions(r)
    \/ Reset(r)

SpecHistory == Init /\ [][NextHistory]_vars

(* The same with the appends not overlapping. *)
NextHistorySeq ==
  \E r \in Slots :
    \/ \E c \in ManualChanges : PostVersionLoad(r, "u1", "d1", c)
    \/ ReadMaxAlone(r)
    \/ InsertVersion(r)
    \/ \E p \in 1..MaxPage, l \in 1..MaxLimit : HistoryLoad(r, "u1", "d1", p, l)
    \/ ListVersions(r)
    \/ CountVersions(r)
    \/ Reset(r)

SpecHistorySeq == Init /\ [][NextHistorySeq]_vars


(***************************************************************************)
(* Contents and counts: u2 creates d2, the owner of d1 edits its content   *)
(* and restores versions of it; the requests interleave at every await.    *)
(* The contents include markup and padding white space.  Creations and    *)
(* restores are sent from one slot, the edits from the others, one edit    *)
(* at a time.                                                              *)
(***************************************************************************)
ContentPadded ==
  <<" ", "<", "b", ">", "a", " ", " ", "b", "<", "/", "b", ">", "\n">>

CountContents == {Some(ContentB), Some(ContentPadded)}

NextCounts ==
  \/ \E c \in {None, Some(ContentA)} : CreateSave(OwnerSlot, "u2", "d2", None, c)
  \/ RestoreVersion(OwnerSlot, "u1", "d1", 1)
  \/ \E r \in Slots \ {OwnerSlot}, c \in CountContents :
       /\ \A q \in Slots \ {OwnerSlot, r} : reqs[q].pc = "idle"
       /\ PutLoad(r, "u1", "d1", None, c, None, None)
  \/ \E r \in Slots :
       \/ SaveDoc(r)
       \/ ReadMax(r)
       \/ InsertVersion(r)
       \/ Reset(r)

SpecCounts == Init /\ [][NextCounts]_vars


(***************************************************************************)
(* Collaborators of d1: addCollaborator and removeCollaborator calls for   *)
(* u2 run concurrently, each between its read of the list and its          *)
(* save.  No call to add starts on a list longer than MaxCollaborators.    *)
(***************************************************************************)
MaxCollaborators == 2

NextCollab ==
  \E r \in Slots :
    \/ \E p \in {"read", "write"} :
         /\ Len(Get(documents["d1"]).collaborators) <= MaxCollaborators
         /\ CollabAdd(r, "d1", "u2", p)
    \/ CollabRemove(r, "d1", "u2")
    \/ SaveDoc(r)
    \/ Reset(r)

SpecCollab == Init /\ [][NextCollab]_vars


(***************************************************************************)
(* Who may share: u2 is made a collaborator of d1 with any capability or   *)
(* is removed; the owner, u2 and u3 issue, update and revoke share links   *)
(* of d1, one request at a time.                                           *)
(***************************************************************************)
NextShareAuth ==
  \E r \in Slots :
    \/ \E p \in CollabPermissions : Alone(r) /\ CollabAdd(r, "d1", "u2", p)
    \/ Alone(r) /\ CollabRemove(r, "d1", "u2")
    \/ \E u \in Users, t \in Tokens :
         Alone(r) /\ ShareIssueLoad(r, u, "d1", NoBody, t)
    \/ \E u \in Users : Alone(r) /\ ShareUpdateLoad(r, u, "d1", NoBody)
    \/ \E u \in Users : Alone(r) /\ ShareRevokeLoad(r, u, "d1")
    \/ SaveDoc(r)
    \/ Reset(r)

SpecShareAuth == Init /\ [][NextShareAuth]_vars


(***************************************************************************)
(* Concurrent updates: the owner of d1 updates its content and saves it    *)
(* manually while u2 creates d2; the requests interleave at every await.   *)
(***************************************************************************)
NextUpdateRace ==
  \/ CreateSave(OwnerSlot, "u2", "d2", None, Some(ContentA))
  \/ \E r \in Slots :
       \/ \E c \in {ContentA, ContentB} : PutLoad(r, "u1", "d1", None, Some(c), None, None)
       \/ \E c \in ManualChanges : PostVersionLoad(r, "u1", "d1", c)
       \/ SaveDoc(r)
       \/ ReadMax(r)
       \/ InsertVersion(r)
       \/ Reset(r)

SpecUpdateRace == Init /\ [][NextUpdateRace]_vars


(***************************************************************************)
(* Reads of a shared document by a stranger: the owner of d1 issues its    *)
(* read link and updates the settings (isPublic, expiresAt); u3, neither   *)
(* owner nor collaborator, resolves tokens, gets the document and lists    *)
(* its versions; one request at a time, time passes between the requests.  *)
(***************************************************************************)
NextExpiredRead ==
  \/ \E r \in Slots :
       \/ \E t \in Tokens : Alone(r) /\ ShareIssueLoad(r, "u1", "d1", NoBody, t)
       \/ \E b \in UpdateBodies : Alone(r) /\ ShareUpdateLoad(r, "u1", "d1", b)
       \/ \E t \in Tokens : Alone(r) /\ Resolve(r, "u3", t)
       \/ Alone(r) /\ GetLoad(r, "u3", "d1")
       \/ Alone(r) /\ HistoryLoad(r, "u3", "d1", 1, MaxLimit)
       \/ ListVersions(r)
       \/ CountVersions(r)
       \/ SaveDoc(r)
       \/ Reset(r)
  \/ Idle /\ Tick

SpecExpiredRead == Init /\ [][NextExpiredRead]_vars


(***************************************************************************)
(* Listings: collaborators of d1 are added and removed, its owner shares   *)
(* it, makes it public or not and revokes, u2 creates d2; every user lists *)
(* the documents; one request at a time.                                   *)
(***************************************************************************)
NextListing ==
  \E r \in Slots :
    \/ \E c \in AccessCollaborators : Alone(r) /\ CollabAdd(r, "d1", c[1], c[2])
    \/ \E u \in Users \ {"u1"} : Alone(r) /\ CollabRemove(r, "d1", u)
    \/ Alone(r) /\ ShareIssueLoad(r, "u1", "d1", NoBody, "t1")
    \/ \E b \in AccessBodies : Alone(r) /\ ShareUpdateLoad(r, "u1", "d1", b)
    \/ Alone(r) /\ ShareRevokeLoad(r, "u1", "d1")
    \/ Alone(r) /\ CreateSave(r, "u2", "d2", None, None)
    \/ \E u \in Users : Alone(r) /\ ListFind(r, u)
    \/ ListCount(r)
    \/ SaveDoc(r)
    \/ ReadMax(r)
    \/ InsertVersion(r)
    \/ Reset(r)

SpecListing == Init /\ [][NextListing]_vars


(***************************************************************************)
(* Claims.                                                                 *)
(***************************************************************************)
VersionNumbersOf(id) == {versions[i].versionNumber : i \in VersionsOf(versions, id)}

(* C1: under concurrent createVersion calls on a document the stored       *)
(* versions of the document carry exactly the numbers 1..N, N the number   *)
(* of its versions: no number is shared and none is skipped.               *)
C1_ExactlyOneToN ==
  \A id \in DocIds :
    /\ VersionNumbersOf(id) = 1..Cardinality(VersionsOf(versions, id))
    /\ \A i, j \in VersionsOf(versions, id) :
         versions[i].versionNumber = versions[j].versionNumber => i = j

(* C2: when appends on one document do not overlap, every append stores    *)
(* the number (maximum existing number of that document) + 1, and 1 when   *)
(* the document has no version yet, whatever other documents hold.         *)
C2_NextIsMaxPlusOne ==
  [][Len(versions') = Len(versions) + 1 =>
       LET v == versions'[Len(versions')]
           mine == VersionsOf(versions, v.documentId)
       IN /\ SubSeq(versions', 1, Len(versions)) = versions
          /\ v.versionNumber =
               IF mine = {} THEN 1
               ELSE MaxNat({versions[i].versionNumber : i \in mine}) + 1]_vars

(* C2 witness: a document holds a second version while the other document  *)
(* holds versions of its own.                                              *)
C2_Witness ==
  /\ \E i \in VersionsOf(versions, "d1") : versions[i].versionNumber = 3
  /\ \E i \in VersionsOf(versions, "d2") : versions[i].versionNumber = 1

ProbedDoc == Get(documents[probe.id])

(* The probe was made on the document as it is stored now. *)
ProbeIsCurrent ==
  /\ probe.result /= "none"
  /\ probe.result = hasAccess(ProbedDoc, probe.user, probe.perm)

IsCollaborator(doc, userId) == IsSome(FindCollaborator(doc, userId))

(* read < write < admin *)
Rank(p) == CASE p = "read" -> 1 [] p = "write" -> 2 [] p = "admin" -> 3

(* C3: hasAccess grants the owner every required permission, whatever the  *)
(* collaborator list and the share settings hold.                          *)
C3_OwnerAlwaysGranted ==
  \A id \in DocIds : IsSome(documents[id]) =>
    \A p \in RequiredPermissions :
      hasAccess(Get(documents[id]), Get(documents[id]).ownerId, p) = "granted"

(* C3 witness: the owner was probed for admin on a document that has        *)
(* collaborators and non-public share settings.                             *)
C3_Witness ==
  /\ ProbeIsCurrent /\ probe.user = ProbedDoc.ownerId /\ probe.perm = "admin"
  /\ probe.result = "granted"
  /\ Len(ProbedDoc.collaborators) > 0
  /\ IsSome(ProbedDoc.shareSettings) /\ ~Get(ProbedDoc.shareSettings).isPublic

(* C4: for a collaborator (not the owner) with capability g, hasAccess      *)
(* grants r iff rank(g) >= rank(r), for all g, r in read, write, admin; the *)
(* share settings do not matter.                                            *)
C4_CollaboratorByRank ==
  \A id \in DocIds : IsSome(documents[id]) =>
    LET doc == Get(documents[id]) IN
    \A u \in Users : (u /= doc.ownerId /\ IsCollaborator(doc, u)) =>
      \A r \in CollabPermissions :
        /\ hasAccess(doc, u, r) = "granted"
              <=> Rank(Get(FindCollaborator(doc, u)).permission) >= Rank(r)
        /\ hasAccess(doc, u, r) \in {"granted", "denied"}
        /\ hasAccess([doc EXCEPT !.shareSettings = None], u, r) = hasAccess(doc, u, r)
        /\ \A b \in BOOLEAN :
             IsSome(doc.shareSettings) =>
               hasAccess([doc EXCEPT !.shareSettings =
                            Some([Get(doc.shareSettings) EXCEPT !.isPublic = b])], u, r)
                 = hasAccess(doc, u, r)

(* C4 witness: a read collaborator was probed for write and denied on a     *)
(* public document.                                                         *)
C4_Witness ==
  /\ ProbeIsCurrent /\ probe.user /= ProbedDoc.ownerId
  /\ IsCollaborator(ProbedDoc, probe.user)
  /\ Get(FindCollaborator(ProbedDoc, probe.user)).permission = "read"
  /\ probe.perm = "write" /\ probe.result = "denied"
  /\ IsSome(ProbedDoc.shareSettings) /\ Get(ProbedDoc.shareSettings).isPublic

(* C5: comment ranks strictly between read and write in the access check:   *)
(* granted read is denied a required comment, and granted comment is denied *)
(* a required write.                                                        *)
C5_CommentBetweenReadAndWrite ==
  (ProbeIsCurrent /\ probe.user /= ProbedDoc.ownerId /\ IsCollaborator(ProbedDoc, probe.user))
  => LET granted == Get(FindCollaborator(ProbedDoc, probe.user)).permission IN
     /\ (granted = "read" /\ probe.perm = "comment") => probe.result = "denied"
     /\ (granted = "comment" /\ probe.perm = "write") => probe.result = "denied"

LinkRank(p) ==
  CASE p = "read" -> 1 [] p = "comment" -> 2 [] p = "write" -> 3 [] p = "admin" -> 4

(* The request's user is neither owner nor collaborator of the document it  *)
(* loaded and bears a token of one of its live permission links.            *)
BearsLiveToken(req) ==
  /\ IsSome(req.bearer) /\ IsSome(req.doc)
  /\ LET doc == Get(req.doc) IN
     /\ req.user /= doc.ownerId /\ ~IsCollaborator(doc, req.user)
     /\ IsSome(doc.shareSettings) /\ Get(doc.shareSettings).isPublic
     /\ ~Expired(doc, now)
     /\ \E p \in LinkPermissions : HoldsToken(doc, p, Get(req.bearer))

(* C6: a user who is neither owner nor collaborator and presents a live     *)
(* share token is granted iff the token's capability satisfies the required *)
(* one: PUT /:id (write) is granted to the bearer of the write token and    *)
(* denied to the bearer of the read token.                                  *)
C6_TokenBearerByCapability ==
  \A r \in Slots :
    (reqs[r].pc = "done" /\ reqs[r].op = "put" /\ BearsLiveToken(reqs[r]))
    => (reqs[r].status = 403
          <=> LinkRank(PermissionOfToken(Get(reqs[r].doc), Get(reqs[r].bearer)))
                < LinkRank("write"))

IsReadCollaborator(doc, userId) ==
  /\ userId /= doc.ownerId
  /\ IsCollaborator(doc, userId)
  /\ Get(FindCollaborator(doc, userId)).permission = "read"

(* C8: a content edit (PUT /:id) or a manual save (POST /:id/versions) by a  *)
(* collaborator whose capability is read ends with 403 and changes neither  *)
(* the stored documents (content, title, lastEditedBy) nor the versions.    *)
C8_ReadCollaboratorDenied ==
  [][\A r \in Slots :
       ( /\ reqs[r].pc = "idle" /\ reqs'[r].pc /= "idle"
         /\ reqs'[r].op \in {"put", "postVersion"}
         /\ IsSome(documents[reqs'[r].id])
         /\ IsReadCollaborator(Get(documents[reqs'[r].id]), reqs'[r].user) )
       => ( /\ reqs'[r].pc = "done" /\ reqs'[r].status = 403
            /\ documents' = documents /\ versions' = versions )]_vars

(* C8 witness: a read collaborator's PUT was answered 403 while the editing  *)
(* of the document by others went on (the owner's edit is stored).          *)
C8_Witness ==
  \E r \in Slots :
    /\ reqs[r].pc = "done" /\ reqs[r].op = "put" /\ reqs[r].status = 403
    /\ IsReadCollaborator(Get(documents[reqs[r].id]), reqs[r].user)
    /\ Get(documents[reqs[r].id]).content = ContentA
    /\ Len(versions) > 1

LinksOf(doc) == Get(doc.shareSettings).permissionLinks

(* The request is a POST /:id/share that stores a minted link in this step. *)
IssueSaves(r) ==
  /\ reqs[r].pc = "saveDoc" /\ reqs[r].op = "shareIssue" /\ reqs'[r].pc = "done"
  /\ reqs'[r].status = 200

C10_ConcurrentIssueSameToken ==
  \A r \in Slots :
    (reqs[r].pc = "done" /\ reqs[r].op = "shareIssue" /\ reqs[r].status = 200)
    => /\ ExistingLink(Get(documents[reqs[r].id]), reqs[r].perm)
            = Some([token |-> Get(reqs[r].token), url |-> ShareUrl(Get(reqs[r].token))])
       /\ reqs[r].id \in DocumentsWithToken(documents, Get(reqs[r].token))
       /\ \A q \in Slots :
            ( /\ reqs[q].pc = "done" /\ reqs[q].op = "shareIssue" /\ reqs[q].status = 200
              /\ reqs[q].id = reqs[r].id /\ reqs[q].perm = reqs[r].perm )
            => reqs[q].token = reqs[r].token

(* The permission-link entries the store holds: <<document, capability>>. *)
LinkEntries ==
  {e \in DocIds \X LinkPermissions :
     /\ IsSome(documents[e[1]])
     /\ IsSome(ExistingLink(Get(documents[e[1]]), e[2]))}

TokenOfEntry(e) == Get(ExistingLink(Get(documents[e[1]]), e[2])).token

(* C11: no two permission-link entries hold the same token, across all      *)
(* documents and all capabilities; an issuance that mints a token equal to  *)
(* a stored one does not end in success with the token stored twice.        *)
C11_TokensGloballyUnique ==
  /\ \A a, b \in LinkEntries : TokenOfEntry(a) = TokenOfEntry(b) => a = b
  /\ \A r \in Slots :
       ( /\ reqs[r].pc = "done" /\ reqs[r].op = "shareIssue"
         /\ reqs[r].status = 200 /\ reqs[r].dirty /= {} )
       => Cardinality({e \in LinkEntries : TokenOfEntry(e) = Get(reqs[r].token)}) <= 1


(* The request is a DELETE /:id/share whose save completes in this step. *)
RevokeSaves(r) ==
  /\ reqs[r].pc = "saveDoc" /\ reqs[r].op = "shareRevoke" /\ reqs'[r].pc = "done"
  /\ reqs'[r].status = 200

(* The request is a GET /shared/:token answered in this step. *)
Resolves(r) == reqs[r].pc = "idle" /\ reqs'[r].pc = "done" /\ reqs'[r].op = "resolve"

TokensResolvingTo(docs, id) == {t \in Tokens : id \in DocumentsWithToken(docs, t)}

Unshared(docs, id) == IsSome(docs[id]) /\ ~IsSome(Get(docs[id]).shareSettings)

(* C12: when a revoke completes the document has no share settings and no   *)
(* permission-link entry, and no token resolves to it; a token resolved     *)
(* while the document is without share settings is answered 404, never with *)
(* the document and never with an error; and no step clears some of the     *)
(* resolving tokens of a document while leaving others resolving.           *)
C12_RevokeClearsAllLinks ==
  [][/\ \A r \in Slots :
          /\ RevokeSaves(r)
             => /\ Unshared(documents', reqs[r].id)
                /\ \A p \in LinkPermissions :
                     ~IsSome(ExistingLink(Get(documents'[reqs[r].id]), p))
                /\ TokensResolvingTo(documents', reqs[r].id) = {}
                /\ \A t \in TokensResolvingTo(documents, reqs[r].id) :
                     DocumentsWithToken(documents', t) = {}
          /\ Resolves(r)
             => /\ reqs'[r].status \in {200, 404, 410}
                /\ (\A id \in DocIds : IsSome(documents[id]) => Unshared(documents, id))
                     => reqs'[r].status = 404 /\ ~IsSome(reqs'[r].content)
                /\ reqs'[r].status /= 404 => ~Unshared(documents, reqs'[r].id)
     /\ \A id \in DocIds :
          \/ TokensResolvingTo(documents, id) \subseteq TokensResolvingTo(documents', id)
          \/ TokensResolvingTo(documents', id) = {}]_vars

(* C12 witness: a revoke that cleared the share settings has completed and  *)
(* a token is resolved after it with 404; the document holds no settings.   *)
C12_Witness ==
  \E r, q \in Slots :
    /\ reqs[r].pc = "done" /\ reqs[r].op = "shareRevoke" /\ reqs[r].status = 200
    /\ "shareSettings" \in reqs[r].dirty
    /\ reqs[q].pc = "done" /\ reqs[q].op = "resolve" /\ reqs[q].status = 404
    /\ Unshared(documents, reqs[r].id)


(* The documents that hold the token in a permission-link entry. *)
EntryHolders(token) == {e[1] : e \in {x \in LinkEntries : TokenOfEntry(x) = token}}

(* The expiry timestamp of the document's share settings is in the past. *)
ExpiredNow(id) ==
  LET expiresAt == Get(Get(documents[id]).shareSettings).expiresAt
  IN IsSome(expiresAt) /\ Get(expiresAt) < now

C14_ResolvesStoredCapability ==
  \A r \in Slots :
    (reqs[r].pc = "done" /\ reqs[r].op = "resolve" /\ reqs[r].status = 200) =>
      LET token == Get(reqs[r].bearer) IN
      /\ reqs[r].id \in EntryHolders(token)
      /\ reqs[r].content = Some(Get(documents[reqs[r].id]).content)
      /\ \A e \in LinkEntries :
           (e[1] = reqs[r].id /\ TokenOfEntry(e) = token) => reqs[r].perm = e[2]


(* C15: Issue returns the stored entry of a (document, capability) pair     *)
(* only when the entry is live: the share settings exist and the expiry     *)
(* timestamp has not passed.  An issuance that finds an expired entry mints *)
(* and stores a new token; it does not answer with the stored one.          *)
C15_IssueReturnsOnlyLiveEntry ==
  \A r \in Slots :
    ( /\ reqs[r].pc = "done" /\ reqs[r].op = "shareIssue" /\ reqs[r].status = 200
      /\ reqs[r].dirty = {} )
    => /\ IsSome(Get(documents[reqs[r].id]).shareSettings)
       /\ ~ExpiredNow(reqs[r].id)


(* The request is a PUT /:id/share that has run its findById in this step. *)
UpdateLoads(r) ==
  /\ reqs[r].pc = "idle" /\ reqs'[r].pc /= "idle" /\ reqs'[r].op = "shareUpdate"

UpdateSaves(r) ==
  /\ reqs[r].pc = "saveDoc" /\ reqs[r].op = "shareUpdate" /\ reqs'[r].pc = "done"
  /\ reqs'[r].status = 200

(* C17: a successful update of the share settings stores the request's      *)
(* isPublic, defaultPermission, allowComments and allowDownload (and the    *)
(* expiry when one is sent) and leaves every permission-link entry as it    *)
(* was: the same capabilities hold the same tokens and urls.                *)
C17_UpdateKeepsLinks ==
  [][\A r \in Slots : UpdateSaves(r) =>
       LET before == Get(documents[reqs[r].id])
           after == Get(documents'[reqs[r].id])
       IN /\ IsSome(before.shareSettings) /\ IsSome(after.shareSettings)
          /\ \A p \in LinkPermissions : LinksOf(after)[p] = LinksOf(before)[p]
          /\ Get(after.shareSettings).isPublic = reqs[r].body.isPublic
          /\ Get(after.shareSettings).defaultPermission = reqs[r].body.defaultPermission
          /\ Get(after.shareSettings).allowComments = reqs[r].body.allowComments
          /\ Get(after.shareSettings).allowDownload = reqs[r].body.allowDownload
          /\ Get(after.shareSettings).expiresAt =
               IF IsSome(reqs[r].body.expiresAt) THEN reqs[r].body.expiresAt
               ELSE Get(before.shareSettings).expiresAt
          /\ after.shareLink = before.shareLink]_vars

(* C17 witness: an update that made the document non-public and set its     *)
(* expiry has completed on a document that holds a read and a write link.   *)
C17_Witness ==
  \E r \in Slots :
    /\ reqs[r].pc = "done" /\ reqs[r].op = "shareUpdate" /\ reqs[r].status = 200
    /\ ~reqs[r].body.isPublic /\ IsSome(reqs[r].body.expiresAt)
    /\ LET doc == Get(documents[reqs[r].id]) IN
       /\ IsSome(doc.shareSettings)
       /\ ~Get(doc.shareSettings).isPublic
       /\ IsSome(LinksOf(doc)["read"]) /\ IsSome(LinksOf(doc)["write"])
       /\ Get(LinksOf(doc)["read"]).token /= Get(LinksOf(doc)["write"]).token


(* C18: after any sequence of addCollaborator, removeCollaborator, link     *)
(* issue, settings update and revoke, a stored document has isShared true   *)
(* iff its collaborator list is non-empty or its share settings exist.      *)
C18_IsSharedIffCollaboratorsOrSettings ==
  \A id \in DocIds : IsSome(documents[id]) =>
    LET doc == Get(documents[id]) IN
    doc.isShared <=> (Len(doc.collaborators) > 0 \/ IsSome(doc.shareSettings))


(* The request is a PUT /:id whose document.save() completes in this step. *)
PutSaves(r) ==
  /\ reqs[r].pc = "saveDoc" /\ reqs[r].op = "put" /\ reqs'[r].pc /= "saveDoc"

(* C19: an accepted update appends exactly one version, with isAutoSave     *)
(* true and the description 'Content updated', iff it carries content that  *)
(* differs from the stored content; an update of title or status only, or   *)
(* with content equal to the stored one, is answered with no version        *)
(* appended.                                                                *)
C19_AutoSaveVersionIffContentChanged ==
  [][\A r \in Slots :
       LET id == reqs[r].id IN
       /\ PutSaves(r)
          => /\ versions' = versions
             /\ IF Get(documents'[id]).content /= Get(documents[id]).content
                THEN reqs'[r].pc = "readMax"
                ELSE reqs'[r].pc = "done" /\ reqs'[r].status = 200
       /\ (reqs[r].op = "put" /\ reqs[r].pc = "readMax")
          => (versions' = versions /\ reqs'[r].pc \in {"readMax", "insertVersion"})
       /\ (reqs[r].op = "put" /\ versions' /= versions)
          => /\ reqs[r].pc = "insertVersion"
             /\ reqs'[r].pc = "done" /\ reqs'[r].status = 200
             /\ Len(versions') = Len(versions) + 1
             /\ SubSeq(versions', 1, Len(versions)) = versions
             /\ LET v == versions'[Len(versions')] IN
                /\ v.documentId = id
                /\ v.isAutoSave = TRUE
                /\ v.changes = "Content updated"
                /\ v.content = Get(documents[id]).content
                /\ v.title = Get(documents[id]).title]_vars

(* C19 witness: an update that changed the title and the status and left    *)
(* the content as stored was answered 200; the versions are the initial one *)
(* and the auto-save of the earlier content change, nothing else.           *)
C19_Witness ==
  \E r \in Slots :
    /\ reqs[r].pc = "done" /\ reqs[r].op = "put" /\ reqs[r].status = 200
    /\ "title" \in reqs[r].dirty /\ "status" \in reqs[r].dirty
    /\ "content" \notin reqs[r].dirty
    /\ reqs[r].content = Some(ContentA)
    /\ Get(documents["d1"]).content = ContentA
    /\ Len(versions) = 2
    /\ versions[2].isAutoSave /\ versions[2].changes = "Content updated"
    /\ versions[2].content = ContentA /\ versions[2].versionNumber = 2


(* The versions of the document that carry the number 1. *)
FirstVersions(id) == {i \in VersionsOf(versions, id) : versions[i].versionNumber = 1}

DeleteInProgress(id) ==
  \E r \in Slots : /\ reqs[r].op = "delete" /\ reqs[r].id = id
                   /\ reqs[r].pc \in {"deleteVersions", "deleteDoc"}

(* C21: once the deletion of a document has completed no stored version     *)
(* references the document, also when the deletion interleaves with an      *)
(* update or a manual save of the document.                                 *)
C21_DeleteRemovesAllVersions ==
  \A id \in DocIds :
    (~IsSome(documents[id]) /\ ~DeleteInProgress(id)) => VersionsOf(versions, id) = {}


(* The restore requests that were sent and have been answered 200. *)
RestoresDone ==
  {r \in Slots : /\ IsSome(reqs[r].restore) /\ reqs[r].op = "put"
                 /\ reqs[r].pc = "done" /\ reqs[r].status = 200}

(* C22: after Restore(document, versionId) the live content is the          *)
(* version's content and the live title is the version's title.             *)
C22_RestoreCopiesContentAndTitle ==
  \A r \in RestoresDone :
    LET version == versions[Get(reqs[r].restore)]
        document == Get(documents[reqs[r].id])
    IN /\ document.content = version.content
       /\ document.title = version.title

(* The part of C22 about the content alone. *)
RestoreCopiesContent ==
  \A r \in RestoresDone :
    Get(documents[reqs[r].id]).content = versions[Get(reqs[r].restore)].content

(* The part of C22 about a version id that matches no version. *)
RestoreOfUnknownChangesNothing ==
  [][\A r \in Slots :
       (IsSome(reqs'[r].restore) /\ reqs'[r].op = "restore")
          => (documents' = documents /\ versions' = versions)]_vars


(* The slots holding a restore that was sent as PUT /:id. *)
RestoresSent(rs) == {r \in Slots : IsSome(rs[r].restore) /\ rs[r].op = "put"}

(* C23, as stated: a restore leaves the versions of the document as they    *)
(* are: none is appended, also when the restored content differs from the   *)
(* current content.                                                         *)
C23_RestoreAppendsNoVersion ==
  [][\A r \in RestoresSent(reqs) : versions' = versions]_vars

(* C23, amended: a restore whose content differs from the current content   *)
(* appends exactly one version, an auto-save "Content updated" with the     *)
(* next number that carries the restored content and the current title;     *)
(* a restore of content equal to the current content appends none.          *)
C23_RestoreAppendsIffContentDiffers ==
  [][\A r \in Slots :
       LET id == reqs'[r].id
           version == versions[Get(reqs'[r].restore)]
           differs == version.content /= Get(documents[id]).content
           after == reqs'[r]
       IN /\ (r \in RestoresSent(reqs') /\ reqs[r].pc = "idle") =>
               /\ versions' = versions
               /\ after.pc = "saveDoc"
               /\ after.newVersion <=> differs
          /\ (r \in RestoresSent(reqs) /\ reqs[r].pc = "saveDoc") =>
               /\ versions' = versions
               /\ IF reqs[r].newVersion THEN after.pc = "readMax"
                  ELSE after.pc = "done" /\ after.status = 200
          /\ (r \in RestoresSent(reqs) /\ reqs[r].pc = "readMax") =>
               versions' = versions
          /\ (r \in RestoresSent(reqs) /\ reqs[r].pc = "insertVersion") =>
               /\ versions' = Append(versions,
                     [ documentId |-> id, content |-> version.content,
                       title |-> Get(documents[id]).title, authorId |-> reqs[r].user,
                       changes |-> "Content updated",
                       versionNumber |-> MaxNat(VersionNumbersOf(id)) + 1,
                       isAutoSave |-> TRUE ])
               /\ after.pc = "done" /\ after.status = 200]_vars

(* A restore of version 1 has been answered after it appended a version     *)
(* with the content of version 1, which the content before it was not.      *)
C23_Witness ==
  \E r \in RestoresSent(reqs) :
    /\ reqs[r].pc = "done" /\ reqs[r].status = 200 /\ reqs[r].newVersion
    /\ Get(reqs[r].restore) = 1
    /\ Len(versions) >= 3
    /\ versions[Len(versions)].content = versions[1].content
    /\ versions[Len(versions) - 1].content /= versions[1].content
    /\ versions[Len(versions)].isAutoSave


(* The listings that have been answered. *)
HistoriesDone ==
  {r \in Slots : reqs[r].op = "history" /\ reqs[r].pc = "done" /\ reqs[r].status = 200}

StrictlyDecreasing(listing) ==
  \A i \in 1..(Len(listing) - 1) : listing[i].versionNumber > listing[i + 1].versionNumber

RECURSIVE PagesFrom(_, _, _, _)
(* The pages p, p + 1, ... of size s, one after the other, up to the last    *)
(* page, ceil(total / s).                                                    *)
PagesFrom(vs, id, s, p) ==
  IF (p - 1) * s >= Cardinality(VersionsOf(vs, id)) THEN <<>>
  ELSE getDocumentHistory(vs, id, s, (p - 1) * s) \o PagesFrom(vs, id, s, p + 1)

(* Every version of the document occurs exactly once in the sequence. *)
EachVersionOnce(listing, vs, id) ==
  /\ Len(listing) = Cardinality(VersionsOf(vs, id))
  /\ \A i \in VersionsOf(vs, id) : \E k \in 1..Len(listing) : listing[k] = vs[i]

(* The paging part of C24: a page holds at most its size, and the pages     *)
(* 1..ceil(total / s) together hold every version exactly once.             *)
PagesPartition ==
  /\ \A r \in HistoriesDone : Len(reqs[r].listing) <= reqs[r].limit
  /\ \A s \in 1..MaxLimit : EachVersionOnce(PagesFrom(versions, "d1", s, 1), versions, "d1")

(* C24: a listing is newest-first, that is in strictly decreasing version   *)
(* number; a page holds at most its size and the pages 1..ceil(total / s)   *)
(* together hold every version exactly once.                                *)
C24_ListingNewestFirstPaged ==
  /\ \A r \in HistoriesDone : StrictlyDecreasing(reqs[r].listing)
  /\ PagesPartition


(* The content without its markup and without leading and trailing white    *)
(* space.                                                                   *)
TextOf(content) == Trim(StripTags(content))

C26_CollaboratorListedOnce ==
  \A id \in DocIds : IsSome(documents[id]) =>
    LET cs == Get(documents[id]).collaborators IN
    \A i, j \in 1..Len(cs) : cs[i].user = cs[j].user => i = j


ShareOps == {"shareIssue", "shareUpdate", "shareRevoke"}

(* C27: a share-link request (issue, update, revoke) is refused exactly      *)
(* when hasAccess(actor, 'write') does not grant: an owner and a collaborator *)
(* with write or admin are authorized, everyone else is answered 403.         *)
C27_ShareAuthorizationIsWriteAccess ==
  \A r \in Slots :
    (reqs[r].op \in ShareOps /\ reqs[r].pc = "done") =>
      LET document == Get(documents[reqs[r].id]) IN
      (reqs[r].status = 403) <=> (hasAccess(document, reqs[r].user, "write") /= "granted")


(* A request that writes the document or its versions is between its        *)
(* first and its last write.                                                *)
WriteInProgress(id) ==
  \E r \in Slots : /\ reqs[r].id = id
                   /\ reqs[r].pc \in {"saveDoc", "readMax", "insertVersion"}

(* C28: whenever no update of a document is in progress, the version of     *)
(* the document with the highest number carries the current content of the  *)
(* document, also after two content updates that interleaved between the    *)
(* save of the document and the append of the version.                      *)
C28_LatestVersionIsCurrentContent ==
  \A id \in DocIds :
    (IsSome(documents[id]) /\ ~WriteInProgress(id)) =>
      \A i \in VersionsOf(versions, id) :
        versions[i].versionNumber = MaxNat(VersionNumbersOf(id))
          => versions[i].content = Get(documents[id]).content

(* The same for the version inserted last. *)
LastInsertedIsCurrentContent ==
  \A id \in DocIds :
    (IsSome(documents[id]) /\ ~WriteInProgress(id)) =>
      \A i \in VersionsOf(versions, id) :
        (\A j \in VersionsOf(versions, id) : j <= i)
          => versions[i].content = Get(documents[id]).content


(* The share of the document has an expiry and it has passed. *)
ShareExpired(id) ==
  /\ IsSome(documents[id])
  /\ IsSome(Get(documents[id]).shareSettings)
  /\ ExpiredNow(id)

(* The requests of u3 on the given read paths that were answered with the   *)
(* content of the document or of its versions.                              *)
StrangerReads(ops) ==
  {r \in Slots : /\ reqs[r].user = "u3" /\ reqs[r].op \in ops
                 /\ reqs[r].pc = "done" /\ reqs[r].status = 200}

(* C29: once the expiry of the share has passed, an actor who is neither    *)
(* owner nor collaborator obtains the content through no read path:         *)
(* GET /shared/:token, GET /:id, GET /:id/versions.                         *)
C29_NoReadAfterExpiry ==
  ShareExpired("d1") => StrangerReads({"resolve", "get", "history"}) = {}

(* The part of C29 about GET /shared/:token. *)
NoResolveAfterExpiry ==
  ShareExpired("d1") => StrangerReads({"resolve"}) = {}


(* The listings that have been answered. *)
ListingsDone ==
  {r \in Slots : reqs[r].op = "list" /\ reqs[r].pc = "done" /\ reqs[r].status = 200}

(* C30: with no search, folder or status filter, the listing for a user     *)
(* holds a document exactly when hasAccess(user, 'read') grants on it.      *)
C30_ListedIffReadAccess ==
  \A r \in ListingsDone : \A id \in DocIds :
    IsSome(documents[id]) =>
      (id \in reqs[r].matched
         <=> hasAccess(Get(documents[id]), reqs[r].user, "read") = "granted")

(* u2 has listed the documents and got its own d2 and d1, on which it is a   *)
(* read collaborator and which is not public.                                *)
C30_Witness ==
  \E r \in ListingsDone :
    /\ reqs[r].user = "u2" /\ reqs[r].matched = {"d1", "d2"}
    /\ ~IsSome(Get(documents["d1"]).shareSettings)
    /\ \E i \in 1..Len(Get(documents["d1"]).collaborators) :
          Get(documents["d1"]).collaborators[i] = [user |-> "u2", permission |-> "read"]

=============================================================================
